---------------------------- MODULE Spec2Model ----------------------------
(***************************************************************************)
(* A model of the career-report service: the server action                *)
(* handleMistralAction (validation, credential check, usage logging, the  *)
(* race between the completion call and the 25 s timer, the line-scanning *)
(* section parser, cleanText and the defaulting of the report fields),    *)
(* createUsageLogAction, onSubmitAction / onShareAction and the sharing   *)
(* component's handleShare.                                               *)
(*                                                                         *)
(* Text is a sequence of one-character strings, so that the regular       *)
(* expressions of the source are computed character by character.         *)
(***************************************************************************)
EXTENDS Integers, Sequences, FiniteSets, TLC

(***************************************************************************)
(* Characters and elementary string operations (JavaScript semantics).    *)
(***************************************************************************)

\* \s of a JavaScript regular expression and the characters String.trim removes
IsSpace(c) == c \in {" ", "\n", "\t", "\r"}

\* \d
IsDigit(c) == c \in {"0", "1", "2", "3", "4", "5", "6", "7", "8", "9"}

\* a line terminator: what "." does not match and where ^ and $ match under /m
IsLineTerm(c) == c \in {"\n", "\r"}

UpperToLower ==
    [c \in {"A","B","C","D","E","F","G","H","I","J","K","L","M","N","O","P","Q","R","S","T","U","V","W","X","Y","Z"} |->
        CASE c = "A" -> "a" [] c = "B" -> "b" [] c = "C" -> "c" [] c = "D" -> "d"
          [] c = "E" -> "e" [] c = "F" -> "f" [] c = "G" -> "g" [] c = "H" -> "h"
          [] c = "I" -> "i" [] c = "J" -> "j" [] c = "K" -> "k" [] c = "L" -> "l"
          [] c = "M" -> "m" [] c = "N" -> "n" [] c = "O" -> "o" [] c = "P" -> "p"
          [] c = "Q" -> "q" [] c = "R" -> "r" [] c = "S" -> "s" [] c = "T" -> "t"
          [] c = "U" -> "u" [] c = "V" -> "v" [] c = "W" -> "w" [] c = "X" -> "x"
          [] c = "Y" -> "y" [] c = "Z" -> "z"]

\* the case folding of the /i flag
ToLower(c) == IF c \in DOMAIN UpperToLower THEN UpperToLower[c] ELSE c

\* t has pat at position i (String.startsWith, a literal in a pattern)
StartsWithAt(t, i, pat) ==
    /\ i >= 1
    /\ i + Len(pat) - 1 <= Len(t)
    /\ \A k \in 1..Len(pat) : t[i + k - 1] = pat[k]

\* the same, ignoring case
StartsWithAtNoCase(t, i, pat) ==
    /\ i >= 1
    /\ i + Len(pat) - 1 <= Len(t)
    /\ \A k \in 1..Len(pat) : ToLower(t[i + k - 1]) = ToLower(pat[k])

\* the least element of a set of positions, none if the set is empty
Least(S, none) == IF S = {} THEN none ELSE CHOOSE x \in S : \A y \in S : x <= y

\* the greatest element of a set of positions, none if the set is empty
Greatest(S, none) == IF S = {} THEN none ELSE CHOOSE x \in S : \A y \in S : y <= x

\* the first position >= i that holds no white space (Len(t) + 1 if none): greedy \s*
SkipSpace(t, i) == Least({j \in i..Len(t) : ~IsSpace(t[j])}, Len(t) + 1)

\* the first position >= i that holds no digit: greedy \d*
SkipDigits(t, i) == Least({j \in i..Len(t) : ~IsDigit(t[j])}, Len(t) + 1)

\* the position of the line terminator ending the line that holds position i
\* (Len(t) + 1 at the last line): where $ matches under /m
LineEnd(t, i) == Least({j \in i..Len(t) : IsLineTerm(t[j])}, Len(t) + 1)

\* ^ under /m: position i starts a line
AtLineStart(t, i) == i = 1 \/ (i >= 2 /\ i - 1 <= Len(t) /\ IsLineTerm(t[i - 1]))

\* the last position of t that holds no white space (0 if none)
LastNonSpace(t) == Greatest({j \in (1)..(Len(t)) : ~IsSpace(t[j])}, 0)

\* String.prototype.trim
Trim(t) ==
    LET a == SkipSpace(t, 1)
        b == LastNonSpace(t)
    IN  IF a > b THEN <<>> ELSE SubSeq(t, a, b)

\* whether t is empty or holds white space only
IsBlank(t) == \A k \in 1..Len(t) : IsSpace(t[k])

\* String.prototype.split("\n"), from position i on
RECURSIVE SplitFrom(_, _)
SplitFrom(t, i) ==
    LET e == Least({j \in i..Len(t) : t[j] = "\n"}, Len(t) + 1)
    IN  IF e > Len(t) THEN <<SubSeq(t, i, Len(t))>>
        ELSE <<SubSeq(t, i, e - 1)>> \o SplitFrom(t, e + 1)

SplitLines(t) == SplitFrom(t, 1)

\* Array.prototype.join("\n")
RECURSIVE JoinLines(_)
JoinLines(ls) ==
    IF ls = <<>> THEN <<>>
    ELSE IF Len(ls) = 1 THEN ls[1]
    ELSE ls[1] \o <<"\n">> \o JoinLines(Tail(ls))

\* replace(/\r\n/g, "\n"), from position i on
RECURSIVE CrlfFrom(_, _)
CrlfFrom(t, i) ==
    LET m == Least({j \in i..Len(t) : StartsWithAt(t, j, <<"\r", "\n">>)}, Len(t) + 1)
    IN  IF m > Len(t) THEN SubSeq(t, i, Len(t))
        ELSE SubSeq(t, i, m - 1) \o <<"\n">> \o CrlfFrom(t, m + 2)

NormalizeCrlf(t) == CrlfFrom(t, 1)

\* replace(/###\s*/g, ""), from position i on
RECURSIVE HashFrom(_, _)
HashFrom(t, i) ==
    LET m == Least({j \in i..Len(t) : StartsWithAt(t, j, <<"#", "#", "#">>)}, Len(t) + 1)
    IN  IF m > Len(t) THEN SubSeq(t, i, Len(t))
        ELSE SubSeq(t, i, m - 1) \o HashFrom(t, SkipSpace(t, m + 3))

StripHeadingMarkers(t) == HashFrom(t, 1)

(***************************************************************************)
(* The section parser of handleMistralAction.                             *)
(***************************************************************************)

\* the four section names of the header pattern and of the sections array
SectionNames ==
    << <<"G","e","n","e","r","a","l"," ","O","u","t","l","o","o","k">>,
       <<"P","o","t","e","n","t","i","a","l"," ","B","e","n","e","f","i","t","s"," ","a","n","d"," ","R","i","s","k","s">>,
       <<"S","t","e","p","s"," ","t","o"," ","A","d","a","p","t">>,
       <<"P","l","a","c","a","r","d">> >>

Sections == 1..Len(SectionNames)

\* (NAME)\s*: at position i, ignoring case: the section matched, 0 if none
NameAt(line, i) ==
    LET hits == {n \in Sections :
                    /\ StartsWithAtNoCase(line, i, SectionNames[n])
                    /\ LET j == SkipSpace(line, i + Len(SectionNames[n]))
                       IN  j <= Len(line) /\ line[j] = ":"}
    IN  IF hits = {} THEN 0 ELSE CHOOSE n \in hits : \A m \in hits : n <= m

\* HeaderMatch with an ordinal that must end in a parenthesis
HeaderMatch_ParenOnly(line) ==
    LET d == SkipDigits(line, 1)
        withOrdinal ==
            IF d > 1 /\ d <= Len(line) /\ line[d] = ")"
            THEN NameAt(line, SkipSpace(line, d + 1))
            ELSE 0
    IN  IF withOrdinal # 0 THEN withOrdinal ELSE NameAt(line, 1)

\* line.match(/^(?:\d+[\.\)]\s*)?(?:(General Outlook|...|Placard)\s*:)/i):
\* the section of the header the line starts with, 0 if the line is no header
HeaderMatch(line) ==
    LET d == SkipDigits(line, 1)
        withOrdinal ==
            IF d > 1 /\ d <= Len(line) /\ line[d] \in {".", ")"}
            THEN NameAt(line, SkipSpace(line, d + 1))
            ELSE 0
    IN  IF withOrdinal # 0 THEN withOrdinal ELSE NameAt(line, 1)

NoSections == [n \in Sections |-> <<>>]

\* ScanLines with a header that leaves what its section has collected so far
RECURSIVE ScanLines_NoReset(_, _, _)
ScanLines_NoReset(lines, i, st) ==
    IF i > Len(lines) THEN st
    ELSE LET line == Trim(lines[i])
             h == HeaderMatch(line)
         IN  IF h # 0
             THEN ScanLines_NoReset(lines, i + 1, [st EXCEPT !.cur = h])
             ELSE IF st.cur # 0
             THEN ScanLines_NoReset(lines, i + 1,
                      [st EXCEPT !.all[st.cur] = st.all[st.cur] \o line \o <<"\n">>])
             ELSE ScanLines_NoReset(lines, i + 1, st)

\* the for loop over the lines: st.cur is currentSection (0: null), st.all is allSections
RECURSIVE ScanLines(_, _, _)
ScanLines(lines, i, st) ==
    IF i > Len(lines) THEN st
    ELSE LET line == Trim(lines[i])
             h == HeaderMatch(line)
         IN  IF h # 0
             THEN ScanLines(lines, i + 1, [cur |-> h, all |-> [st.all EXCEPT ![h] = <<>>]])
             ELSE IF st.cur # 0
             THEN ScanLines(lines, i + 1,
                      [st EXCEPT !.all[st.cur] = st.all[st.cur] \o line \o <<"\n">>])
             ELSE ScanLines(lines, i + 1, st)

\* ExtractSections giving the n-th field the block that stands n-th in the text
ExtractSections_InOrder(raw) ==
    LET cleanedRaw == NormalizeCrlf(StripHeadingMarkers(raw))
        lines == SplitLines(cleanedRaw)
        heads == SelectSeq([i \in 1..Len(lines) |-> HeaderMatch(Trim(lines[i]))],
                           LAMBDA h : h # 0)
        st == ScanLines(lines, 1, [cur |-> 0, all |-> NoSections])
    IN  [n \in Sections |->
            IF n <= Len(heads) /\ st.all[heads[n]] # <<>> THEN Trim(st.all[heads[n]])
            ELSE <<>>]

\* the content of each of the four sections of a raw completion
ExtractSections(raw) ==
    LET cleanedRaw == NormalizeCrlf(StripHeadingMarkers(raw))
        st == ScanLines(SplitLines(cleanedRaw), 1, [cur |-> 0, all |-> NoSections])
    IN  [n \in Sections |-> IF st.all[n] # <<>> THEN Trim(st.all[n]) ELSE <<>>]


(***************************************************************************)
(* cleanText.                                                              *)
(***************************************************************************)

LiOpen == <<"<","l","i",">">>
LiClose == <<"<","/","l","i",">">>
UlOpen == <<"<","u","l"," ","c","l","a","s","s","=","\"","p","l","-","5"," ","l","i","s","t","-","d","i","s","c","\"",">">>
UlClose == <<"<","/","u","l",">">>
StrongOpen == <<"<","s","t","r","o","n","g",">">>
StrongClose == <<"<","/","s","t","r","o","n","g",">">>
EmOpen == <<"<","e","m",">">>
EmClose == <<"<","/","e","m",">">>
H4Open == <<"<","h","4"," ","c","l","a","s","s","=","\"","t","e","x","t","-","b","a","s","e"," ","f","o","n","t","-","s","e","m","i","b","o","l","d"," ","m","t","-","4"," ","m","b","-","2","\"",">">>
H4Close == <<"<","/","h","4",">">>
SubHeadings == { <<"B","e","n","e","f","i","t","s",":">>, <<"R","i","s","k","s",":">> }

\* /\n\s*\n/ at position i: the position of the match's last "\n", 0 if no match
BlankRunEnd(t, i) ==
    IF t[i] = "\n"
    THEN Greatest({j \in (i + 1)..(SkipSpace(t, i + 1) - 1) : t[j] = "\n"}, 0)
    ELSE 0

\* replace(/\n\s*\n/g, "\n\n"), from position i on
RECURSIVE BlankFrom(_, _)
BlankFrom(t, i) ==
    LET m == Least({j \in i..Len(t) : BlankRunEnd(t, j) # 0}, Len(t) + 1)
    IN  IF m > Len(t) THEN SubSeq(t, i, Len(t))
        ELSE SubSeq(t, i, m - 1) \o <<"\n", "\n">> \o BlankFrom(t, BlankRunEnd(t, m) + 1)

CollapseBlankLines(t) == BlankFrom(t, 1)

\* /^-\s+/ matches at position i
BulletAt(t, i) == AtLineStart(t, i) /\ t[i] = "-" /\ i + 1 <= Len(t) /\ IsSpace(t[i + 1])

\* replace(/^-\s+(.*?)$/gm, "<li>$1</li>"), from position i on
RECURSIVE BulletFrom(_, _)
BulletFrom(t, i) ==
    LET m == Least({j \in i..Len(t) : BulletAt(t, j)}, Len(t) + 1)
    IN  IF m > Len(t) THEN SubSeq(t, i, Len(t))
        ELSE LET j == SkipSpace(t, m + 1)
                 e == LineEnd(t, j)
             IN  SubSeq(t, i, m - 1) \o LiOpen \o SubSeq(t, j, e - 1) \o LiClose
                     \o BulletFrom(t, e)

BulletsToItems(t) == BulletFrom(t, 1)

\* the loop that wraps each run of consecutive "<li>" lines in one list container
RECURSIVE WrapFrom(_, _, _)
WrapFrom(lines, i, inList) ==
    IF i > Len(lines) THEN (IF inList THEN <<UlClose>> ELSE <<>>)
    ELSE LET line == lines[i]
             isItem == StartsWithAt(line, 1, LiOpen)
         IN  IF isItem /\ ~inList THEN <<UlOpen, line>> \o WrapFrom(lines, i + 1, TRUE)
             ELSE IF isItem /\ inList THEN <<line>> \o WrapFrom(lines, i + 1, TRUE)
             ELSE IF ~isItem /\ inList THEN <<UlClose, line>> \o WrapFrom(lines, i + 1, FALSE)
             ELSE <<line>> \o WrapFrom(lines, i + 1, FALSE)

WrapLists(t) == JoinLines(WrapFrom(SplitLines(t), 1, FALSE))

\* the first position >= j where mark stands, with no line terminator before it
\* (0 if none): the end of a lazy (.*?) followed by mark
FindClose(t, j, mark) ==
    LET c == Least({k \in j..Len(t) : StartsWithAt(t, k, mark) \/ IsLineTerm(t[k])}, Len(t) + 1)
    IN  IF c <= Len(t) /\ StartsWithAt(t, c, mark) THEN c ELSE 0

\* /MARK(.*?)MARK/ at position i: the position of the closing mark, 0 if no match
EmphasisAt(t, i, mark) ==
    IF StartsWithAt(t, i, mark) THEN FindClose(t, i + Len(mark), mark) ELSE 0

\* replace(/MARK(.*?)MARK/g, "<tag>$1</tag>") for MARK ** or *, from position i on
RECURSIVE EmphasisFrom(_, _, _, _, _)
EmphasisFrom(t, i, mark, open, close) ==
    LET m == Least({j \in i..Len(t) : EmphasisAt(t, j, mark) # 0}, Len(t) + 1)
    IN  IF m > Len(t) THEN SubSeq(t, i, Len(t))
        ELSE LET c == EmphasisAt(t, m, mark)
             IN  SubSeq(t, i, m - 1) \o open \o SubSeq(t, m + Len(mark), c - 1) \o close
                     \o EmphasisFrom(t, c + Len(mark), mark, open, close)

BoldToStrong(t) == EmphasisFrom(t, 1, <<"*", "*">>, StrongOpen, StrongClose)

ItalicToEm(t) == EmphasisFrom(t, 1, <<"*">>, EmOpen, EmClose)

\* the sub-heading (Benefits: or Risks:) at the start of a line at position i
SubHeadingsAt(t, i) == {h \in SubHeadings : AtLineStart(t, i) /\ StartsWithAt(t, i, h)}

\* replace(/^(Benefits|Risks):/gm, '<h4 class="...">$1:</h4>'), from position i on
RECURSIVE SubHeadingFrom(_, _)
SubHeadingFrom(t, i) ==
    LET m == Least({j \in i..Len(t) : SubHeadingsAt(t, j) # {}}, Len(t) + 1)
    IN  IF m > Len(t) THEN SubSeq(t, i, Len(t))
        ELSE LET h == CHOOSE x \in SubHeadingsAt(t, m) : TRUE
             IN  SubSeq(t, i, m - 1) \o H4Open \o h \o H4Close
                     \o SubHeadingFrom(t, m + Len(h))

EnhanceSubHeadings(t) == SubHeadingFrom(t, 1)

\* /^(\d+\.)\s+/ matches at position i
NumeralAt(t, i) ==
    LET d == SkipDigits(t, i)
    IN  AtLineStart(t, i) /\ d > i /\ d + 1 <= Len(t) /\ t[d] = "." /\ IsSpace(t[d + 1])

\* replace(/^(\d+\.)\s+/gm, "<strong>$1</strong> "), from position i on
RECURSIVE NumberFrom(_, _)
NumberFrom(t, i) ==
    LET m == Least({j \in i..Len(t) : NumeralAt(t, j)}, Len(t) + 1)
    IN  IF m > Len(t) THEN SubSeq(t, i, Len(t))
        ELSE LET d == SkipDigits(t, m)
             IN  SubSeq(t, i, m - 1) \o StrongOpen \o SubSeq(t, m, d) \o StrongClose
                     \o <<" ">> \o NumberFrom(t, SkipSpace(t, d + 1))

BoldNumerals(t) == NumberFrom(t, 1)

cleanText(text) ==
    IF text = <<>> THEN <<>>
    ELSE LET normalized == Trim(CollapseBlankLines(NormalizeCrlf(text)))
             listed == WrapLists(BulletsToItems(normalized))
         IN  BoldNumerals(EnhanceSubHeadings(ItalicToEm(BoldToStrong(listed))))

(***************************************************************************)
(* Defaulting and assembly of the report.                                 *)
(***************************************************************************)

\* the literal fallback of each section
Fallbacks ==
    << <<"N","o"," ","g","e","n","e","r","a","l"," ","o","u","t","l","o","o","k"," ","f","o","u","n","d",".">>,
       <<"N","o"," ","b","e","n","e","f","i","t","s"," ","a","n","d"," ","r","i","s","k","s"," ","a","n","a","l","y","s","i","s"," ","f","o","u","n","d",".">>,
       <<"N","o"," ","s","t","e","p","s"," ","f","o","u","n","d",".">>,
       <<"N","o"," ","p","l","a","c","a","r","d"," ","s","u","m","m","a","r","y"," ","f","o","u","n","d",".">> >>

\* OrFallback without the defaulting
OrFallback_None(cleaned, fallback) == cleaned

\* cleaned || fallback
OrFallback(cleaned, fallback) == IF cleaned # <<>> THEN cleaned ELSE fallback

\* ReportFields with the first fallback used for every field
ReportFields_FirstFallback(raw) ==
    LET content == ExtractSections(raw)
    IN  [n \in Sections |-> OrFallback(cleanText(content[n]), Fallbacks[1])]

\* the four text fields of the report for a raw completion: each section's
\* content extracted, cleaned and defaulted
ReportFields(raw) ==
    LET content == ExtractSections(raw)
    IN  [n \in Sections |-> OrFallback(cleanText(content[n]), Fallbacks[n])]

\* the MistralResponse built from the submitted profession and the fields
MistralResponse(profession, fields) ==
    [profession |-> profession,
     outlook |-> fields[1],
     benefitsAndRisks |-> fields[2],
     steps |-> fields[3],
     placard |-> fields[4]]

\* PromptHeaderLines asking for a third section under another name
PromptHeaderLines_Renamed ==
    << <<" "," ","1",")"," ","G","e","n","e","r","a","l"," ","O","u","t","l","o","o","k",":">>,
       <<" "," ","2",")"," ","P","o","t","e","n","t","i","a","l"," ","B","e","n","e","f","i","t","s"," ","a","n","d"," ","R","i","s","k","s",":">>,
       <<" "," ","3",")"," ","A","d","a","p","t","a","t","i","o","n"," ","S","t","e","p","s",":">>,
       <<" "," ","4",")"," ","P","l","a","c","a","r","d",":">> >>

\* the four header lines of systemPrompt ("Provide the response in exactly four
\* labeled sections:"), as the template literal renders them
PromptHeaderLines ==
    << <<" "," ","1",")"," ","G","e","n","e","r","a","l"," ","O","u","t","l","o","o","k",":">>,
       <<" "," ","2",")"," ","P","o","t","e","n","t","i","a","l"," ","B","e","n","e","f","i","t","s"," ","a","n","d"," ","R","i","s","k","s",":">>,
       <<" "," ","3",")"," ","S","t","e","p","s"," ","t","o"," ","A","d","a","p","t",":">>,
       <<" "," ","4",")"," ","P","l","a","c","a","r","d",":">> >>

(***************************************************************************)
(* Inputs.                                                                 *)
(***************************************************************************)

\* the longest free-form completion, in lines
MaxLines == 2

Professions == {"", "Nurse", "Chef"}
Experiences == {-1, 0, 50, 51}
Regions == {"", "Canada"}
SkillLevels == {0, 1, 10, 11}

Requests ==
    [profession : Professions, experience : Experiences,
     region : Regions, skillLevel : SkillLevels]

NoRequest == [profession |-> "", experience |-> 0, region |-> "", skillLevel |-> 0]

\* lines a completion is made of
CompletionLines ==
    { <<"1",")"," ","G","e","n","e","r","a","l"," ","O","u","t","l","o","o","k",":">>,
      <<"P","o","t","e","n","t","i","a","l"," ","B","e","n","e","f","i","t","s"," ","a","n","d"," ","R","i","s","k","s",":">>,
      <<"3","."," ","s","t","e","p","s"," ","t","o"," ","a","d","a","p","t",":">>,
      <<"P","l","a","c","a","r","d",":">>,
      <<"S","t","a","b","l","e"," ","d","e","m","a","n","d",".">>,
      <<"-"," ","L","e","a","r","n"," ","A","I">>,
      <<"*","*","A","I","*","*"," ","h","e","l","p","s">>,
      <<" "," "," ">> }

\* a completion as the prompt asks for it
FullCompletion ==
    <<"1",")"," ","G","e","n","e","r","a","l"," ","O","u","t","l","o","o","k",":","\n","S","t","a","b","l","e"," ","d","e","m","a","n","d",".","\n","2",")"," ","P","o","t","e","n","t","i","a","l"," ","B","e","n","e","f","i","t","s"," ","a","n","d"," ","R","i","s","k","s",":","\n","B","e","n","e","f","i","t","s",":","\n","-"," ","S","p","e","e","d","\n","R","i","s","k","s",":","\n","-"," ","E","r","r","o","r","s","\n","3",")"," ","S","t","e","p","s"," ","t","o"," ","A","d","a","p","t",":","\n","1","."," ","L","e","a","r","n"," ","A","I","\n","4",")"," ","P","l","a","c","a","r","d",":","\n","N","u","r","s","e","s"," ","*","*","a","d","a","p","t","*","*",".">>

\* the completion texts the remote model may return
RawTexts ==
    {FullCompletion} \cup
    {JoinLines(ls) : ls \in UNION {[1..n -> CompletionLines] : n \in 1..MaxLines}}

\* what client.chat.complete may resolve with: a response without a first choice's
\* message content, or one whose content is a string (possibly the empty one)
Responses ==
    {[shape |-> sh, content |-> <<>>] : sh \in {"undefined", "noChoices", "noContent"}}
        \cup {[shape |-> "content", content |-> t] : t \in RawTexts \cup {<<>>}}

NoResponse == [shape |-> "undefined", content |-> <<>>]

\* the case folding in the other direction
ToUpper(c) ==
    LET ups == {u \in DOMAIN UpperToLower : UpperToLower[u] = c}
    IN  IF ups = {} THEN c ELSE CHOOSE u \in ups : TRUE

\* the forms of a header line: the ordinal styles of the source's comment
\* ("1) General Outlook:", "1. General Outlook:", "General Outlook:") and the
\* decorations (words two spaces apart, bold, bold around an ordinal)
OrdinalStyles == {"paren", "dot", "none"}
Decorations == {"double", "bold", "boldOrdinal"}
LetterCases == {"title", "lower", "upper"}

DigitChars == <<"1", "2", "3", "4">>

\* a section name in a letter case
NameIn(n, case) ==
    LET name == SectionNames[n]
    IN  [k \in 1..Len(name) |->
            IF case = "lower" THEN ToLower(name[k])
            ELSE IF case = "upper" THEN ToUpper(name[k])
            ELSE name[k]]

\* t with every space doubled
RECURSIVE DoubleSpaces(_)
DoubleSpaces(t) ==
    IF t = <<>> THEN <<>>
    ELSE (IF Head(t) = " " THEN <<" ", " ">> ELSE <<Head(t)>>) \o DoubleSpaces(Tail(t))

\* the header line of section n in a style and a letter case
HeaderLine(n, style, case) ==
    LET name == NameIn(n, case)
    IN  CASE style = "paren" -> <<DigitChars[n], ")", " ">> \o name \o <<":">>
          [] style = "dot" -> <<DigitChars[n], ".", " ">> \o name \o <<":">>
          [] style = "none" -> name \o <<":">>
          [] style = "prompt" -> PromptHeaderLines[n]
          [] style = "double" -> DoubleSpaces(name) \o <<":">>
          [] style = "bold" -> <<"*", "*">> \o name \o <<":", "*", "*">>
          [] style = "boldOrdinal" ->
                <<"*", "*", DigitChars[n], ")", " ">> \o name \o <<":", "*", "*">>

\* the body of each section in the completions under test
Bodies ==
    << <<"S","t","a","b","l","e"," ","d","e","m","a","n","d",".">>,
       <<"B","e","n","e","f","i","t","s",":","\n","-"," ","S","p","e","e","d","\n","R","i","s","k","s",":","\n","-"," ","E","r","r","o","r","s">>,
       <<"1","."," ","L","e","a","r","n"," ","A","I","\n","\n"," "," ","2","."," ","A","d","a","p","t">>,
       <<"N","u","r","s","e","s"," ","*","*","a","d","a","p","t","*","*",".">> >>

\* a section the prompt did not ask for
ExtraHeader == <<"C","o","n","c","l","u","s","i","o","n",":">>
ExtraBody == <<"T","h","e"," ","e","n","d",".">>
ExtraBlock == ExtraHeader \o <<"\n">> \o ExtraBody

\* a placard in which the model wrote HTML of its own
MarkupBody == <<"N","u","r","s","e","s"," ","<","i","m","g"," ","s","r","c","=","x"," ","o","n","e","r","r","o","r","=","a","l","e","r","t","(","1",")",">"," ","a","d","a","p","t",".">>

\* the sections of S in ascending order
Ordered(S) == SelectSeq(<<1, 2, 3, 4>>, LAMBDA n : n \in S)

\* prose the model may put before the first header
Preamble == <<"H","e","r","e"," ","i","s"," ","m","y"," ","a","n","a","l","y","s","i","s",".">>

\* the orders the four blocks of a completion can stand in
BlockOrders ==
    {p \in [Sections -> Sections] : \A i, j \in Sections : p[i] = p[j] => i = j}

\* the four blocks with one header occurring a second time, before or after another
\* block
Repetitions ==
    {<<1, 2, 1, 3, 4>>, <<1, 1, 2, 3, 4>>, <<1, 2, 3, 4, 2>>, <<4, 1, 2, 3, 4>>,
     <<1, 2, 3, 3, 4>>}

\* how a completion under test is built: the header form, the sections present,
\* whether prose precedes the first header, whether the body starts on the header's
\* line, where an extra block stands (after that many sections; -1: nowhere), and
\* the order of the blocks (<<>>: ascending)
Docs ==
    {[family |-> "sections", style |-> st, case |-> ca, present |-> S, preamble |-> pre,
      inline |-> FALSE, place |-> -1, order |-> <<>>] :
        st \in OrdinalStyles, ca \in LetterCases, S \in SUBSET Sections, pre \in BOOLEAN}
    \cup
    {[family |-> "inline", style |-> st, case |-> "title", present |-> S, preamble |-> FALSE,
      inline |-> TRUE, place |-> -1, order |-> <<>>] :
        st \in OrdinalStyles, S \in {{4}, {1, 4}, Sections}}
    \cup
    {[family |-> "extra", style |-> "paren", case |-> "title", present |-> Sections,
      preamble |-> FALSE, inline |-> FALSE, place |-> k, order |-> <<>>] : k \in {0, 2, 4}}
    \cup
    {[family |-> "decorated", style |-> st, case |-> "title", present |-> Sections,
      preamble |-> FALSE, inline |-> FALSE, place |-> -1, order |-> <<>>] :
        st \in Decorations}
    \cup
    {[family |-> "prompt", style |-> "prompt", case |-> "title", present |-> S,
      preamble |-> pre, inline |-> FALSE, place |-> -1, order |-> <<>>] :
        S \in SUBSET Sections, pre \in BOOLEAN}
    \cup
    {[family |-> "markup", style |-> st, case |-> "title", present |-> Sections,
      preamble |-> FALSE, inline |-> FALSE, place |-> -1, order |-> <<>>] :
        st \in OrdinalStyles}
    \cup
    {[family |-> "permuted", style |-> st, case |-> "title", present |-> Sections,
      preamble |-> FALSE, inline |-> FALSE, place |-> -1, order |-> p] :
        st \in OrdinalStyles, p \in BlockOrders}
    \cup
    {[family |-> "repeated", style |-> st, case |-> "title", present |-> Sections,
      preamble |-> pre, inline |-> FALSE, place |-> -1, order |-> r] :
        st \in {"paren", "none"}, pre \in BOOLEAN, r \in Repetitions}

\* the text of a completion under test; the body under a header that occurs again
\* further down is the extra body, and the placard of the markup family is the
\* placard with HTML
DocText(d) ==
    LET ord == IF d.order # <<>> THEN d.order ELSE Ordered(d.present)
        sep == IF d.inline THEN <<" ">> ELSE <<"\n">>
        body(i) ==
            IF \E j \in (i + 1)..Len(ord) : ord[j] = ord[i] THEN ExtraBody
            ELSE IF d.family = "markup" /\ ord[i] = 4 THEN MarkupBody
            ELSE Bodies[ord[i]]
        block(i) == HeaderLine(ord[i], d.style, d.case) \o sep \o body(i)
        blocks == [i \in 1..Len(ord) |-> block(i)]
        before == SubSeq(blocks, 1, d.place)
        after == SubSeq(blocks, d.place + 1, Len(blocks))
        all == IF d.place < 0 THEN blocks ELSE before \o <<ExtraBlock>> \o after
    IN  JoinLines((IF d.preamble THEN <<Preamble>> ELSE <<>>) \o all)

DocTexts == {DocText(d) : d \in Docs}

\* the longest input of cleanText under test, in lines
MaxCleanLines == 3

\* lines an input of cleanText is made of
CleanLines ==
    { <<"-"," ","L","e","a","r","n"," ","A","I">>,
      <<"-"," ","A","d","a","p","t">>,
      <<"1","."," ","P","l","a","n">>,
      <<"*","*","A","I","*","*"," ","a","n","d"," ","*","y","o","u","*">>,
      <<"B","e","n","e","f","i","t","s",":">>,
      <<"P","l","a","i","n",".">>,
      <<"-">>,
      <<>> }

CleanTexts ==
    {JoinLines(ls) : ls \in UNION {[1..n -> CleanLines] : n \in 1..MaxCleanLines}}

\* a text under test before anything was applied to it
NoDoc ==
    [family |-> "", style |-> "", case |-> "", present |-> {}, preamble |-> FALSE,
     inline |-> FALSE, place |-> -1, order |-> <<>>]

\* an input of cleanText alone
CleanerDoc == [NoDoc EXCEPT !.family = "cleaner"]

NoText ==
    [doc |-> NoDoc, raw |-> <<>>, parsed |-> <<>>, returned |-> <<>>, cleaned |-> <<>>,
     recleaned |-> <<>>]

\* errors client.chat.complete may reject with, and the error of the timer
RemoteErrors == {"401 Unauthorized: invalid API key", "ECONNRESET"}
TimeoutError == "Request to Mistral API timed out after 25000ms"

\* what the completion call resolves with for the submissions of the form
FormResponses ==
    {[shape |-> "noContent", content |-> <<>>], [shape |-> "content", content |-> FullCompletion]}

\* ReportFields of every completion text, computed once
FieldsOf == [t \in RawTexts \cup DocTexts \cup {<<>>} |-> ReportFields(t)] @@ <<>>

\* the networks of the sharing component's buttons
Networks == {"linkedin", "reddit"}

Clients == {"c1"}

(***************************************************************************)
(* Envelopes (ActionState) and the synchronous steps of the server        *)
(* actions.                                                                *)
(***************************************************************************)

\* { isSuccess: false, message }: the data key is absent
Failure(message) == [isSuccess |-> FALSE, message |-> message, data |-> <<>>]

\* { isSuccess: true, message, data }
Success(message, data) == [isSuccess |-> TRUE, message |-> message, data |-> <<data>>]

\* ValidationMessage with the region check moved before the experience check
ValidationMessage_RegionFirst(profession, experience, region, skillLevel) ==
    IF profession = "" THEN "Profession is required."
    ELSE IF region = "" THEN "Region is required."
    ELSE IF experience < 0 \/ experience > 50
    THEN "Experience must be between 0 and 50 years."
    ELSE IF skillLevel < 1 \/ skillLevel > 10
    THEN "Skill level must be between 1 and 10."
    ELSE ""

\* ValidationMessage with the bounds of both ranges excluded
ValidationMessage_OpenRanges(profession, experience, region, skillLevel) ==
    IF profession = "" THEN "Profession is required."
    ELSE IF experience <= 0 \/ experience >= 50
    THEN "Experience must be between 0 and 50 years."
    ELSE IF region = "" THEN "Region is required."
    ELSE IF skillLevel <= 1 \/ skillLevel >= 10
    THEN "Skill level must be between 1 and 10."
    ELSE ""

\* the validation of handleMistralAction: the message of the check that rejects,
\* "" when all four pass
ValidationMessage(profession, experience, region, skillLevel) ==
    IF profession = "" THEN "Profession is required."
    ELSE IF experience < 0 \/ experience > 50
    THEN "Experience must be between 0 and 50 years."
    ELSE IF region = "" THEN "Region is required."
    ELSE IF skillLevel < 1 \/ skillLevel > 10
    THEN "Skill level must be between 1 and 10."
    ELSE ""

\* ConfigMessage telling which variable is not set
ConfigMessage_NamesSecret(keyPresent) ==
    IF ~keyPresent THEN "MISTRAL_API_KEY is not set" ELSE ""

\* the check of process.env.MISTRAL_API_KEY: the rejection message, "" when present
ConfigMessage(keyPresent) ==
    IF ~keyPresent THEN "API configuration error. Please contact support." ELSE ""

\* EarlyReturn with the credential looked at only after the request was made
EarlyReturn_KeyNotChecked(a, keyPresent) ==
    LET v == ValidationMessage(a.profession, a.experience, a.region, a.skillLevel)
    IN  IF v # "" THEN <<Failure(v)>> ELSE <<>>

\* what handleMistralAction returns before it logs usage, <<>> when it goes on
EarlyReturn(a, keyPresent) ==
    LET v == ValidationMessage(a.profession, a.experience, a.region, a.skillLevel)
    IN  IF v # "" THEN <<Failure(v)>>
        ELSE IF ConfigMessage(keyPresent) # "" THEN <<Failure(ConfigMessage(keyPresent))>>
        ELSE <<>>

\* HasContent without the check
HasContent_Unchecked(response) == TRUE

\* response?.choices?.[0]?.message?.content is truthy
HasContent(response) == response.shape = "content" /\ response.content # <<>>

\* OnResponse with a response without content thrown into catch (apiError)
OnResponse_AsTimeout(profession, response) ==
    IF ~HasContent(response)
    THEN Failure("An error occurred while communicating with Mistral. Please try again later.")
    ELSE Success("Analysis completed successfully",
                 MistralResponse(profession, FieldsOf[response.content]))

\* the envelope returned once the race settled with a response
OnResponse(profession, response) ==
    IF ~HasContent(response) THEN Failure("Failed to get a valid AI response.")
    ELSE Success("Analysis completed successfully",
                 MistralResponse(profession, FieldsOf[response.content]))

\* the result of a computation that threw (one that returned is <<envelope>>)
Thrown == <<>>

\* the envelope of catch (apiError)
OnApiError ==
    Failure("An error occurred while communicating with Mistral. Please try again later.")

\* the envelope of the outer catch (error)
OnUnhandledError == Failure("An unexpected error occurred. Please try again later.")

\* try { race, content check, parsing } catch (apiError)
InnerCatch(result) == IF result = Thrown THEN <<OnApiError>> ELSE result

\* the try { ... } catch (error) around the whole body
OuterCatch(result) == IF result = Thrown THEN <<OnUnhandledError>> ELSE result

\* HandlerResult with the race awaited outside every try block
HandlerResult_Uncaught(result) == result

\* what handleMistralAction makes of the race's result: both catch blocks apply
HandlerResult(result) == OuterCatch(InnerCatch(result))

\* the envelope createUsageLogAction returns for an insert that succeeded or threw
UsageLogResult(insertOk) ==
    IF insertOk THEN [isSuccess |-> TRUE, message |-> "Usage log created", data |-> <<>>]
    ELSE Failure("Failed to create usage log")

\* InsertUsage writing the event over what the table held
InsertUsage_Overwrite(log, eventType, userId, createdAt, insertOk) ==
    IF insertOk
    THEN <<[eventType |-> eventType, userId |-> userId, createdAt |-> createdAt]>>
    ELSE log

\* the usage_logs table after db.insert(usageTable).values({ eventType, userId }):
\* created_at defaults to the database's clock
InsertUsage(log, eventType, userId, createdAt, insertOk) ==
    IF insertOk
    THEN Append(log, [eventType |-> eventType, userId |-> userId, createdAt |-> createdAt])
    ELSE log

\* UsageEvent recording who asked
UsageEvent_WithProfession(a) == [eventType |-> "mistral-analysis", userId |-> a.profession]

\* the arguments of createUsageLogAction in handleMistralAction for the request a:
\* two literals
UsageEvent(a) == [eventType |-> "mistral-analysis", userId |-> "system"]

\* ContinuesAfterLogging giving up when the usage log could not be written
ContinuesAfterLogging_OnlyIfLogged(logResult) == logResult.isSuccess

\* what handleMistralAction does with the outcome of its usage logging:
\* TRUE when it goes on to the completion request
ContinuesAfterLogging(logResult) == TRUE

\* ShareResult with the failure of the usage log swallowed
ShareResult_Swallowed(logResult) ==
    [isSuccess |-> TRUE, message |-> "Usage log created", data |-> <<>>]

\* what onShareAction returns for the result of createUsageLogAction
ShareResult(logResult) == logResult

\* handleShare's toast for the result of onShareAction, "" when it shows none
ShareToast(res) == IF ~res.isSuccess THEN "Share Error" ELSE ""

(***************************************************************************)
(* The forms: their zod schemas and what HomeClient's onSubmit does with   *)
(* what onSubmitAction settled with.                                       *)
(***************************************************************************)

\* formSchema of HomeClient: string().min(2).max(50), number().min(0).max(50),
\* string().min(2).max(50), number().min(1).max(10)
HomeFormSchema(v) ==
    /\ Len(v.profession) >= 2 /\ Len(v.profession) <= 50
    /\ v.experience >= 0 /\ v.experience <= 50
    /\ Len(v.region) >= 2 /\ Len(v.region) <= 50
    /\ v.skillLevel >= 1 /\ v.skillLevel <= 10

\* formSchema of FormInputs: as HomeClient's, with skillLevel number().min(0).max(10)
InputsFormSchema(v) ==
    /\ Len(v.profession) >= 2 /\ Len(v.profession) <= 50
    /\ v.experience >= 0 /\ v.experience <= 50
    /\ Len(v.region) >= 2 /\ Len(v.region) <= 50
    /\ v.skillLevel >= 0 /\ v.skillLevel <= 10

\* what "await onSubmitAction(...)" can settle with for the request a: the envelope
\* handleMistralAction returns (its early return, or what the race's outcome makes
\* of a response or of a rejection), or the rejection of the call itself
ActionOutcomes(a, keyPresent) ==
    {Thrown} \cup
        (IF EarlyReturn(a, keyPresent) # <<>> THEN {EarlyReturn(a, keyPresent)}
         ELSE {HandlerResult(<<OnResponse(a.profession, r)>>) : r \in FormResponses}
                 \cup {HandlerResult(Thrown)})

\* ResultAfter with the report taken off the screen when a submission fails
ResultAfter_Cleared(shown, outcome) ==
    IF outcome # Thrown /\ outcome[1].isSuccess THEN outcome[1].data ELSE <<>>

\* the result state after the transition's callback handled what the call settled
\* with: setResult(response.data) on a success envelope only
ResultAfter(shown, outcome) ==
    IF outcome # Thrown /\ outcome[1].isSuccess THEN outcome[1].data ELSE shown

\* the description of the toast the callback shows
ToastAfter(outcome) ==
    IF outcome = Thrown
    THEN "An unexpected error occurred while analyzing. Please try again."
    ELSE IF ~outcome[1].isSuccess THEN outcome[1].message
    ELSE "Your career analysis is ready!"

(***************************************************************************)
(* State.                                                                  *)
(***************************************************************************)

VARIABLES
    apiKey,      \* whether process.env.MISTRAL_API_KEY is set
    usageLog,    \* the rows of the usage_logs table, in insertion order
    pc,          \* where each client's submission stands
    args,        \* the arguments of the submission
    logResult,   \* what createUsageLogAction returned to handleMistralAction
    requests,    \* completion requests issued by the execution
    remote,      \* the completion call: none, pending, resolved, rejected
    timer,       \* the timeout timer: unset, armed, fired
    settledBy,   \* what settled the race: none, response, rejected, timeout
    response,    \* the response the completion call resolved with
    envelope,    \* what onSubmitAction returned: <<>> or <<envelope>>
    escaped,     \* whether an exception left handleMistralAction
    thrown,      \* the message of the error that rejected the race, "" if none
    share,       \* each client's share action
    now,         \* the database clock, read by created_at's defaultNow()
    sample,      \* a text given to the parser and to cleanText, with their results
    form         \* HomeClient: its state, its button and its calls of onSubmitAction

vars ==
    <<apiKey, usageLog, pc, args, logResult, requests, remote, timer, settledBy,
      response, envelope, escaped, thrown, share, now, sample, form>>

handlerVars ==
    <<pc, args, logResult, requests, remote, timer, settledBy, response, envelope, escaped,
      thrown>>

\* a share action: where it stands, its network, whether the share link was opened,
\* whether the row was inserted, what onShareAction returned and the toast shown
NoShare ==
    [pc |-> "idle", network |-> "", opened |-> FALSE, inserted |-> FALSE,
     result |-> <<>>, toast |-> ""]

\* HomeClient as mounted: useState(null), useState(false), useTransition(), the
\* button as rendered, the calls of onSubmitAction in flight, the submit events
\* handled so far, whether field errors are shown, the last toast, and what the
\* calls settled with, in the order they settled
NoForm ==
    [result |-> <<>>, isAnalyzing |-> FALSE, isPending |-> FALSE, disabled |-> FALSE,
     calls |-> <<>>, submitted |-> 0, invalid |-> FALSE, toast |-> "", settled |-> <<>>]

\* the state before any submission or share of the given clients
Start(clients) ==
    /\ usageLog = <<>>
    /\ pc = [c \in clients |-> "idle"]
    /\ args = [c \in clients |-> NoRequest]
    /\ logResult = [c \in clients |-> <<>>]
    /\ requests = [c \in clients |-> 0]
    /\ remote = [c \in clients |-> "none"]
    /\ timer = [c \in clients |-> "unset"]
    /\ settledBy = [c \in clients |-> "none"]
    /\ response = [c \in clients |-> NoResponse]
    /\ envelope = [c \in clients |-> <<>>]
    /\ escaped = [c \in clients |-> FALSE]
    /\ thrown = [c \in clients |-> ""]
    /\ share = [c \in clients |-> NoShare]
    /\ now = 0

Init ==
    /\ apiKey \in BOOLEAN
    /\ Start(Clients)
    /\ sample = NoText
    /\ form = NoForm

(***************************************************************************)
(* Report generation: onSubmitAction -> handleMistralAction.              *)
(***************************************************************************)

\* the form calls onSubmitAction, which calls handleMistralAction with the request a
SubmitRequest(c, a) ==
    /\ pc[c] = "idle"
    /\ args' = [args EXCEPT ![c] = a]
    /\ pc' = [pc EXCEPT ![c] = "started"]
    /\ UNCHANGED <<form, sample, now, apiKey, usageLog, logResult, requests, remote, timer, settledBy,
                   response, envelope, escaped, thrown, share>>

\* a submission of any request
Submit(c) == pc[c] = "idle" /\ \E a \in Requests : SubmitRequest(c, a)

\* validation and the credential check; then createUsageLogAction is awaited
Validate(c) ==
    /\ pc[c] = "started"
    /\ LET early == EarlyReturn(args[c], apiKey)
       IN  IF early # <<>>
           THEN /\ envelope' = [envelope EXCEPT ![c] = early]
                /\ pc' = [pc EXCEPT ![c] = "returned"]
           ELSE /\ pc' = [pc EXCEPT ![c] = "logging"]
                /\ UNCHANGED envelope
    /\ UNCHANGED <<form, sample, now, apiKey, usageLog, args, logResult, requests, remote, timer, settledBy,
                   response, escaped, thrown, share>>

\* the insert of createUsageLogAction("mistral-analysis", "system") settles; the
\* handler then builds the client, arms the timer and issues the completion request
LogUsage(c) ==
    /\ pc[c] = "logging"
    /\ \E insertOk \in BOOLEAN :
          /\ usageLog' = InsertUsage(usageLog, UsageEvent(args[c]).eventType,
                                      UsageEvent(args[c]).userId, now, insertOk)
          /\ logResult' = [logResult EXCEPT ![c] = <<UsageLogResult(insertOk)>>]
          /\ IF ContinuesAfterLogging(UsageLogResult(insertOk))
             THEN /\ requests' = [requests EXCEPT ![c] = @ + 1]
                  /\ remote' = [remote EXCEPT ![c] = "pending"]
                  /\ timer' = [timer EXCEPT ![c] = "armed"]
                  /\ pc' = [pc EXCEPT ![c] = "racing"]
                  /\ UNCHANGED envelope
             ELSE /\ envelope' = [envelope EXCEPT ![c] = <<UsageLogResult(insertOk)>>]
                  /\ pc' = [pc EXCEPT ![c] = "returned"]
                  /\ UNCHANGED <<requests, remote, timer>>
    /\ UNCHANGED <<form, sample, now, apiKey, args, settledBy, response, escaped, thrown, share>>

\* how the handler leaves the race: with an envelope, or with the exception if it
\* is caught nowhere
Leave(c, result) ==
    /\ pc' = [pc EXCEPT ![c] = "returned"]
    /\ IF result = Thrown
       THEN escaped' = [escaped EXCEPT ![c] = TRUE] /\ UNCHANGED envelope
       ELSE envelope' = [envelope EXCEPT ![c] = result] /\ UNCHANGED escaped

\* client.chat.complete resolves with the response r
ResolveWith(c, r) ==
    /\ remote[c] = "pending"
    /\ remote' = [remote EXCEPT ![c] = "resolved"]
    /\ response' = [response EXCEPT ![c] = r]
    /\ IF pc[c] = "racing"
       THEN /\ settledBy' = [settledBy EXCEPT ![c] = "response"]
            /\ Leave(c, HandlerResult(<<OnResponse(args[c].profession, r)>>))
       ELSE UNCHANGED <<settledBy, pc, envelope, escaped>>
    /\ UNCHANGED <<form, sample, now, apiKey, usageLog, args, logResult, requests, timer, thrown, share>>

\* client.chat.complete resolves
RemoteResolve(c) == remote[c] = "pending" /\ \E r \in Responses : ResolveWith(c, r)

\* RemoteReject with the request issued again after a rejection
RemoteReject_Retry(c) ==
    /\ remote[c] = "pending"
    /\ pc[c] = "racing"
    /\ requests' = [requests EXCEPT ![c] = @ + 1]
    /\ UNCHANGED <<form, sample, now, apiKey, usageLog, pc, args, logResult, remote, timer, settledBy,
                   response, envelope, escaped, thrown, share>>

\* client.chat.complete rejects
RemoteReject(c) ==
    /\ remote[c] = "pending"
    /\ remote' = [remote EXCEPT ![c] = "rejected"]
    /\ IF pc[c] = "racing"
       THEN /\ settledBy' = [settledBy EXCEPT ![c] = "rejected"]
            /\ \E e \in RemoteErrors : thrown' = [thrown EXCEPT ![c] = e]
            /\ Leave(c, HandlerResult(Thrown))
       ELSE UNCHANGED <<settledBy, pc, envelope, escaped, thrown>>
    /\ UNCHANGED <<form, sample, now, apiKey, usageLog, args, logResult, requests, timer, response, share>>

\* TimerFire with a callback that rejects nothing
TimerFire_NoReject(c) ==
    /\ timer[c] = "armed"
    /\ timer' = [timer EXCEPT ![c] = "fired"]
    /\ UNCHANGED <<form, sample, now, apiKey, usageLog, pc, args, logResult, requests, remote, settledBy,
                   response, envelope, escaped, thrown, share>>

\* TimerFire with a callback that ends the submission whenever it runs
TimerFire_AlwaysSettles(c) ==
    /\ timer[c] = "armed"
    /\ timer' = [timer EXCEPT ![c] = "fired"]
    /\ settledBy' = [settledBy EXCEPT ![c] = "timeout"]
    /\ thrown' = [thrown EXCEPT ![c] = TimeoutError]
    /\ Leave(c, HandlerResult(Thrown))
    /\ UNCHANGED <<form, sample, now, apiKey, usageLog, args, logResult, requests, remote, response, share>>

\* the setTimeout callback runs after TIMEOUT_MS and rejects timeoutPromise; the
\* rejection settles Promise.race only if the race is still pending
TimerFire(c) ==
    /\ timer[c] = "armed"
    /\ timer' = [timer EXCEPT ![c] = "fired"]
    /\ IF pc[c] = "racing"
       THEN /\ settledBy' = [settledBy EXCEPT ![c] = "timeout"]
            /\ thrown' = [thrown EXCEPT ![c] = TimeoutError]
            /\ Leave(c, HandlerResult(Thrown))
       ELSE UNCHANGED <<settledBy, pc, envelope, escaped, thrown>>
    /\ UNCHANGED <<form, sample, now, apiKey, usageLog, args, logResult, requests, remote, response, share>>

(***************************************************************************)
(* Sharing: handleShare -> onShareAction -> createUsageLogAction.         *)
(***************************************************************************)

\* handleShare opens the share link and starts the transition that logs the share
HandleShare(c) ==
    /\ share[c].pc = "idle"
    /\ \E n \in Networks :
          share' = [share EXCEPT ![c] = [NoShare EXCEPT !.pc = "logging", !.network = n,
                                                        !.opened = TRUE]]
    /\ UNCHANGED <<form, sample, now, apiKey, usageLog, handlerVars>>

\* the insert of createUsageLogAction("shared_<network>") settles, onShareAction
\* returns and handleShare's transition looks at the result
ShareLogged(c) ==
    /\ share[c].pc = "logging"
    /\ \E insertOk \in BOOLEAN :
          LET res == ShareResult(UsageLogResult(insertOk))
          IN  /\ usageLog' = InsertUsage(usageLog, "shared_" \o share[c].network, "null", now, insertOk)
              /\ share' = [share EXCEPT ![c].pc = "done", ![c].inserted = insertOk,
                                        ![c].result = <<res>>,
                                        ![c].toast = ShareToast(res)]
    /\ UNCHANGED <<form, sample, now, apiKey, handlerVars>>

(***************************************************************************)
(* The parser and cleanText applied to a given text.                      *)
(***************************************************************************)

\* the handler's steps on a response whose content is the text: the content check,
\* the section parser, cleanText and the assembly of the envelope
ParseCompletion ==
    /\ sample.doc.family # "cleaner"
    /\ sample.parsed = <<>>
    /\ \E profession \in Professions \ {""} :
          sample' = [sample EXCEPT
                      !.parsed = <<ExtractSections(sample.raw)>>,
                      !.returned = <<OnResponse(profession,
                                        [shape |-> "content", content |-> sample.raw])>>]
    /\ UNCHANGED <<form, apiKey, usageLog, handlerVars, share, now>>

\* cleanText applied to the text
CleanOnce ==
    /\ sample.doc.family = "cleaner"
    /\ sample.cleaned = <<>>
    /\ sample' = [sample EXCEPT !.cleaned = <<cleanText(sample.raw)>>]
    /\ UNCHANGED <<form, apiKey, usageLog, handlerVars, share, now>>

\* cleanText applied to its own output
CleanAgain ==
    /\ sample.cleaned # <<>>
    /\ sample.recleaned = <<>>
    /\ sample' = [sample EXCEPT !.recleaned = <<cleanText(sample.cleaned[1])>>]
    /\ UNCHANGED <<form, apiKey, usageLog, handlerVars, share, now>>

\* a completion or an input of cleanText is given; nothing was submitted
TextInit ==
    /\ apiKey = TRUE
    /\ Start(Clients)
    /\ sample \in {[NoText EXCEPT !.doc = d, !.raw = DocText(d)] : d \in Docs}
                \cup {[NoText EXCEPT !.doc = CleanerDoc, !.raw = t] : t \in CleanTexts}
    /\ form = NoForm

TextNext == ParseCompletion \/ CleanOnce \/ CleanAgain

TextSpec == TextInit /\ [][TextNext]_vars

(***************************************************************************)
(* Several clients submitting and sharing while the database clock runs.  *)
(***************************************************************************)

\* the latest reading of the database clock
MaxTime == 1

\* the database clock advances
Tick ==
    /\ now < MaxTime
    /\ now' = now + 1
    /\ UNCHANGED <<form, sample, apiKey, usageLog, handlerVars, share>>

LogClients == {"c1", "c2"}

\* what the clients submit and share, and how their completion calls end: a rejected
\* and an accepted request, a full completion, a connection error, one network
LogRequests ==
    {[profession |-> p, experience |-> 50, region |-> "Canada", skillLevel |-> 10] :
        p \in {"", "Nurse"}}

LogResponses == {[shape |-> "content", content |-> FullCompletion]}
LogError == "ECONNRESET"
LogNetwork == "reddit"

LogInit ==
    /\ apiKey = TRUE
    /\ Start(LogClients)
    /\ sample = NoText
    /\ form = NoForm

LogNext ==
    \/ Tick
    \/ \E c \in LogClients :
          \/ \E a \in LogRequests : SubmitRequest(c, a)
          \/ Validate(c)
          \/ LogUsage(c)
          \/ \E r \in LogResponses : ResolveWith(c, r)
          \/ RemoteReject(c) /\ thrown'[c] \in {thrown[c], LogError}
          \/ TimerFire(c)
          \/ HandleShare(c) /\ share'[c].network = LogNetwork
          \/ ShareLogged(c)

LogSpec == LogInit /\ [][LogNext]_vars

(***************************************************************************)
(* HomeClient: submit events, renders and the calls of onSubmitAction.     *)
(***************************************************************************)

\* the submit events one mounted form handles
MaxSubmissions == 2

\* a submit event reaches the form while the button is enabled in the document:
\* form.handleSubmit validates the values against formSchema and, if they pass, runs
\* onSubmit: setIsAnalyzing(true), startTransition, and the call of onSubmitAction
FormSubmit ==
    /\ ~form.disabled
    /\ form.submitted < MaxSubmissions
    /\ \E v \in Requests :
          form' =
              IF HomeFormSchema(v)
              THEN [form EXCEPT !.submitted = @ + 1, !.invalid = FALSE,
                                !.isAnalyzing = TRUE, !.isPending = TRUE,
                                !.calls = Append(@, [id |-> form.submitted + 1,
                                                     values |-> v])]
              ELSE [form EXCEPT !.submitted = @ + 1, !.invalid = TRUE]
    /\ UNCHANGED <<sample, apiKey, usageLog, handlerVars, share, now>>

\* React renders the component with its current state: the button gets
\* disabled={isAnalyzing || isPending}
Render ==
    /\ form.disabled # (form.isAnalyzing \/ form.isPending)
    /\ form' = [form EXCEPT !.disabled = form.isAnalyzing \/ form.isPending]
    /\ UNCHANGED <<sample, apiKey, usageLog, handlerVars, share, now>>

\* the transition started by startTransition is over for React: isPending is false
\* again (when the callback returned its promise, or when that promise settled)
TransitionEnds ==
    /\ form.isPending
    /\ form' = [form EXCEPT !.isPending = FALSE]
    /\ UNCHANGED <<sample, apiKey, usageLog, handlerVars, share, now>>

\* a call of onSubmitAction settles and the callback goes on after its await: the
\* toast, setResult on success, and setIsAnalyzing(false) in the finally block
Settle ==
    /\ \E i \in 1..Len(form.calls) :
          \E outcome \in ActionOutcomes(form.calls[i].values, apiKey) :
              form' = [form EXCEPT
                          !.calls = SubSeq(@, 1, i - 1) \o SubSeq(@, i + 1, Len(@)),
                          !.result = ResultAfter(@, outcome),
                          !.toast = ToastAfter(outcome),
                          !.isAnalyzing = FALSE,
                          !.settled = Append(@, [id |-> form.calls[i].id,
                                                 profession |-> form.calls[i].values.profession,
                                                 outcome |-> outcome])]
    /\ UNCHANGED <<sample, apiKey, usageLog, handlerVars, share, now>>

\* the page is loaded: the form is mounted and nothing was submitted
FormInit ==
    /\ apiKey \in BOOLEAN
    /\ Start(Clients)
    /\ sample = NoText
    /\ form = NoForm

FormNext == FormSubmit \/ Render \/ TransitionEnds \/ Settle

FormSpec == FormInit /\ [][FormNext]_vars

Next ==
    \E c \in Clients :
        \/ Submit(c)
        \/ Validate(c)
        \/ LogUsage(c)
        \/ RemoteResolve(c)
        \/ RemoteReject(c)
        \/ TimerFire(c)
        \/ HandleShare(c)
        \/ ShareLogged(c)

Spec == Init /\ [][Next]_vars

\* the timer is a setTimeout of the event loop: once armed it fires
LiveSpec == Spec /\ \A c \in Clients : WF_vars(TimerFire(c))

(***************************************************************************)
(* Properties.                                                             *)
(***************************************************************************)

\* the four checks in the order profession, experience, region, skillLevel
CheckMessages ==
    << "Profession is required.",
       "Experience must be between 0 and 50 years.",
       "Region is required.",
       "Skill level must be between 1 and 10." >>

\* the checks a request violates
Violated(a) ==
    {k \in 1..4 :
        \/ k = 1 /\ a.profession = ""
        \/ k = 2 /\ ~(0 <= a.experience /\ a.experience <= 50)
        \/ k = 3 /\ a.region = ""
        \/ k = 4 /\ ~(1 <= a.skillLevel /\ a.skillLevel <= 10)}

FirstViolated(a) == CHOOSE k \in Violated(a) : \A m \in Violated(a) : k <= m

Returned(c) == pc[c] = "returned"

\* what the submission returned, when it returned an envelope
Envelope(c) == envelope[c][1]

\* C1: a submission that violates one or more checks returns the rejection of the
\* earliest violated check in the order profession, experience, region, skillLevel
C1_FirstFailingCheckWins ==
    \A c \in Clients :
        (Returned(c) /\ Violated(args[c]) # {}) =>
            envelope[c] = <<Failure(CheckMessages[FirstViolated(args[c])])>>

\* a submission with experience 51 and skillLevel 0 was rejected for its experience
C1_Witness ==
    \E c \in Clients :
        /\ Returned(c)
        /\ args[c].profession # "" /\ args[c].experience = 51 /\ args[c].skillLevel = 0
        /\ envelope[c] = <<Failure("Experience must be between 0 and 50 years.")>>

\* C2: validation passes exactly when profession and region are non-empty,
\* 0 <= experience <= 50 and 1 <= skillLevel <= 10; a single violation is rejected
\* with the message of its field
C2_ValidationExact ==
    \A c \in Clients :
        pc[c] \notin {"idle", "started"} =>
            LET a == args[c]
                rejected == Returned(c) /\ envelope[c] # <<>>
                               /\ \E k \in 1..4 : Envelope(c).message = CheckMessages[k]
            IN  /\ rejected <=> Violated(a) # {}
                /\ \A k \in 1..4 :
                      Violated(a) = {k} => envelope[c] = <<Failure(CheckMessages[k])>>

\* a submission with experience 50 and skillLevel 10 passed validation
C2_Witness ==
    \E c \in Clients :
        pc[c] = "racing" /\ args[c].experience = 50 /\ args[c].skillLevel = 10

\* C3: a submission that fails validation or finds no credential never issues a
\* completion request, and returns a failure envelope
C3_NoRequestOnRejection ==
    \A c \in Clients :
        (pc[c] # "idle" /\ (Violated(args[c]) # {} \/ ~apiKey)) =>
            /\ requests[c] = 0 /\ remote[c] = "none" /\ timer[c] = "unset"
            /\ pc[c] \in {"started", "returned"}
            /\ Returned(c) =>
                  /\ envelope[c] # <<>>
                  /\ ~Envelope(c).isSuccess
                  /\ Envelope(c).message \in
                        {CheckMessages[k] : k \in 1..4}
                            \cup {"API configuration error. Please contact support."}

\* a valid submission was rejected for the missing credential, with no request made
C3_Witness ==
    \E c \in Clients :
        /\ Returned(c) /\ ~apiKey /\ Violated(args[c]) = {}
        /\ envelope[c] = <<Failure("API configuration error. Please contact support.")>>
        /\ requests[c] = 0

\* C4: no exception leaves handleMistralAction; a submission that finished returned
\* an envelope, which carries data exactly when isSuccess is true
C4_AlwaysAnEnvelope ==
    \A c \in Clients :
        /\ ~escaped[c]
        /\ Returned(c) <=> envelope[c] # <<>>
        /\ Returned(c) =>
              /\ Envelope(c).isSuccess \in BOOLEAN
              /\ Envelope(c).message # ""
              /\ Envelope(c).isSuccess <=> Envelope(c).data # <<>>

\* the timer rejected the race and the submission returned the failure envelope
C4_Witness ==
    \E c \in Clients :
        Returned(c) /\ settledBy[c] = "timeout" /\ envelope[c] = <<OnApiError>>

ReportFieldNames == {"outlook", "benefitsAndRisks", "steps", "placard"}

\* C5: in every success envelope the four text fields are non-empty and not
\* white space only, and profession is the submitted profession
C5_FieldsPopulated ==
    \A c \in Clients :
        (Returned(c) /\ Envelope(c).isSuccess) =>
            LET report == Envelope(c).data[1]
            IN  /\ \A f \in ReportFieldNames : report[f] # <<>> /\ ~IsBlank(report[f])
                /\ report.profession = args[c].profession

\* a success whose outlook was extracted and whose placard is the fallback
C5_Witness ==
    \E c \in Clients :
        /\ Returned(c) /\ Envelope(c).isSuccess
        /\ Envelope(c).data[1].outlook
              = <<"S","t","a","b","l","e"," ","d","e","m","a","n","d",".">>
        /\ Envelope(c).data[1].placard = Fallbacks[4]
        /\ Envelope(c).data[1].profession = "Chef"

\* C6: a rejected call, an expired timer or a response without non-empty content
\* gives a failure envelope without a report; a success envelope is returned only
\* for a response with non-empty content to the request of this submission
C6_FailsClosed ==
    \A c \in Clients :
        Returned(c) =>
            LET noCompletion ==
                    \/ settledBy[c] \in {"rejected", "timeout"}
                    \/ /\ settledBy[c] = "response"
                       /\ ~(response[c].shape = "content" /\ response[c].content # <<>>)
            IN  /\ noCompletion => (~Envelope(c).isSuccess /\ Envelope(c).data = <<>>)
                /\ Envelope(c).isSuccess =>
                      /\ settledBy[c] = "response" /\ requests[c] = 1
                      /\ response[c].shape = "content" /\ response[c].content # <<>>

\* the call resolved with an empty content string and the submission failed
C6_Witness ==
    \E c \in Clients :
        /\ Returned(c) /\ settledBy[c] = "response"
        /\ response[c] = [shape |-> "content", content |-> <<>>]
        /\ envelope[c] = <<Failure("Failed to get a valid AI response.")>>

\* C7: once the race has started the submission returns, with a failure envelope
\* if the timer settled the race, whether or not the completion call ever settles
C7_TimerUnblocks ==
    \A c \in Clients :
        /\ (pc[c] = "racing") ~> (Returned(c) /\ envelope[c] # <<>>)
        /\ [](settledBy[c] = "timeout" => (Returned(c) /\ envelope[c] = <<OnApiError>>))

\* the timer settled the race while the completion call was still pending
C7_Witness ==
    \E c \in Clients :
        Returned(c) /\ settledBy[c] = "timeout" /\ remote[c] = "pending"

\* C8: an execution issues at most one completion request, and exactly one when
\* validation and the credential check pass; no failure is followed by a second one
C8_OneRequest ==
    \A c \in Clients :
        /\ requests[c] <= 1
        /\ Returned(c) => (requests[c] = 1 <=> (Violated(args[c]) = {} /\ apiKey))
        /\ (Returned(c) /\ settledBy[c] # "none") => requests[c] = 1

\* the completion call rejected and the submission returned after its one request
C8_Witness ==
    \E c \in Clients :
        /\ Returned(c) /\ settledBy[c] = "rejected" /\ requests[c] = 1
        /\ ~Envelope(c).isSuccess

\* what the race's outcome alone makes the submission return
RaceEnvelope(c) ==
    IF settledBy[c] = "response" THEN OnResponse(args[c].profession, response[c])
    ELSE OnApiError

\* C9: whatever createUsageLogAction returned, the request is issued and the
\* envelope returned is the one the inputs and the race's outcome determine
C9_LoggingDoesNotDecide ==
    \A c \in Clients :
        logResult[c] # <<>> =>
            /\ pc[c] \in {"racing", "returned"}
            /\ requests[c] = 1
            /\ Returned(c) => (settledBy[c] # "none" /\ envelope[c] = <<RaceEnvelope(c)>>)

\* the usage log could not be written and the submission succeeded
C9_Witness ==
    \E c \in Clients :
        /\ Returned(c) /\ logResult[c] = <<Failure("Failed to create usage log")>>
        /\ usageLog = <<>>
        /\ Envelope(c).isSuccess

\* C10 as claimed: a failed insert during onShareAction gives the caller no failure
\* outcome and the sharing component shows no error
C10_ShareFailureHidden ==
    \A c \in Clients :
        (share[c].pc = "done" /\ ~share[c].inserted) =>
            (share[c].result[1].isSuccess /\ share[c].toast = "")

\* C10 amended: the failed insert is caught in createUsageLogAction, so no exception
\* reaches the caller, but onShareAction returns the failure envelope and handleShare
\* shows the "Share Error" toast; the share link was opened before
C10_ShareFailureReturned ==
    \A c \in Clients :
        share[c].pc = "done" =>
            /\ share[c].opened
            /\ share[c].result # <<>>
            /\ ~share[c].inserted =>
                  /\ share[c].result = <<Failure("Failed to create usage log")>>
                  /\ share[c].toast = "Share Error"
            /\ share[c].inserted =>
                  (share[c].result[1].isSuccess /\ share[c].toast = "")

\* a share whose insert failed ended with the error toast
C10_Witness ==
    \E c \in Clients :
        /\ share[c].pc = "done" /\ ~share[c].inserted /\ share[c].network = "linkedin"
        /\ share[c].toast = "Share Error"

(***************************************************************************)
(* Properties of the section parser and of cleanText.                     *)
(***************************************************************************)

\* a body with each of its lines and the whole trimmed
TrimLines(body) ==
    LET ls == SplitLines(body)
    IN  Trim(JoinLines([i \in 1..Len(ls) |-> Trim(ls[i])]))

\* the text field of a report that belongs to section n
FieldOf(report, n) ==
    CASE n = 1 -> report.outlook
      [] n = 2 -> report.benefitsAndRisks
      [] n = 3 -> report.steps
      [] n = 4 -> report.placard

\* the completion under test was parsed and its envelope assembled
Parsed(family) == sample.doc.family = family /\ sample.parsed # <<>>

\* C11: from a completion of the four headers, each followed on the next lines by its
\* body, the parser extracts for each section its body with the lines trimmed, in each
\* ordinal style ("1)", "1.", none) and each letter case of the header
C11_RoundTrip ==
    (Parsed("sections") /\ sample.doc.present = Sections) =>
        \A n \in Sections : sample.parsed[1][n] = TrimLines(Bodies[n])

\* headers written "3. STEPS TO ADAPT:" after a line of prose; the body of the steps,
\* a blank line and an indented line included, was extracted
C11_Witness ==
    /\ Parsed("sections") /\ sample.doc.present = Sections
    /\ sample.doc.style = "dot" /\ sample.doc.case = "upper" /\ sample.doc.preamble
    /\ sample.parsed[1][3]
          = <<"1","."," ","L","e","a","r","n"," ","A","I","\n","\n","2","."," ","A","d","a","p","t">>

\* C12 as claimed: the text that follows the colon on the header's own line belongs
\* to the section: the extracted content is the whole body and the report field holds it
C12_HeaderLineTextKept ==
    Parsed("inline") =>
        \A n \in sample.doc.present :
            /\ sample.parsed[1][n] = TrimLines(Bodies[n])
            /\ FieldOf(sample.returned[1].data[1], n) = cleanText(TrimLines(Bodies[n]))

\* C13: a non-empty completion that holds the headers of S, each with its body,
\* returns a success whose report has the extracted and cleaned body in the fields of
\* S and the literal fallback in exactly the others, S empty included
C13_PerFieldFallback ==
    (Parsed("sections") /\ sample.raw # <<>>) =>
        /\ sample.returned[1].isSuccess
        /\ sample.returned[1].message = "Analysis completed successfully"
        /\ \A n \in Sections :
              FieldOf(sample.returned[1].data[1], n) =
                  IF n \in sample.doc.present THEN cleanText(TrimLines(Bodies[n]))
                  ELSE Fallbacks[n]

\* a completion with the outlook and the steps only: both extracted, the other two
\* fields defaulted
C13_Witness ==
    /\ Parsed("sections") /\ sample.doc.present = {1, 3}
    /\ sample.returned[1].isSuccess
    /\ sample.returned[1].data[1].outlook = Bodies[1]
    /\ sample.returned[1].data[1].benefitsAndRisks = Fallbacks[2]
    /\ sample.returned[1].data[1].placard = Fallbacks[4]

\* C14 as claimed: a block "Conclusion:" before, between or after the four sections
\* adds nothing to the content of any of them
C14_ExtraSectionIgnored ==
    Parsed("extra") => \A n \in Sections : sample.parsed[1][n] = TrimLines(Bodies[n])

\* C15 as claimed: a header whose words are two spaces apart, or that stands in bold,
\* with or without an ordinal, is recognised and its body extracted
C15_DecoratedHeaders ==
    Parsed("decorated") => \A n \in Sections : sample.parsed[1][n] = TrimLines(Bodies[n])

\* C16 as claimed: cleanText applied to its own output changes nothing
C16_CleanTextIdempotent ==
    sample.recleaned # <<>> => sample.recleaned = sample.cleaned

\* a bullet line: a dash, white space and the item, on one line
IsBulletLine(line) == Len(line) >= 2 /\ line[1] = "-" /\ IsSpace(line[2])

\* the number of maximal runs of consecutive bullet lines
BulletRuns(lines) ==
    Cardinality({i \in 1..Len(lines) :
                    IsBulletLine(lines[i]) /\ (i = 1 \/ ~IsBulletLine(lines[i - 1]))})

\* C17 as claimed: in the output of cleanText the list tags alternate, opening first
\* and closing last, there is one list per maximal run of bullet lines, and the
\* list items are as many as the bullet lines
C17_ListsBalanced ==
    sample.cleaned # <<>> =>
        LET ins == SplitLines(sample.raw)
            out == SplitLines(sample.cleaned[1])
            tags == SelectSeq(out, LAMBDA l : l \in {UlOpen, UlClose})
            items == {i \in 1..Len(out) : StartsWithAt(out[i], 1, LiOpen)}
        IN  /\ Len(tags) % 2 = 0
            /\ \A k \in 1..Len(tags) : tags[k] = IF k % 2 = 1 THEN UlOpen ELSE UlClose
            /\ Len(tags) = 2 * BulletRuns(ins)
            /\ Cardinality(items) = Cardinality({i \in 1..Len(ins) : IsBulletLine(ins[i])})

(***************************************************************************)
(* Properties of the failure envelopes.                                    *)
(***************************************************************************)

\* the message literals of the failure envelopes in handleMistralAction,
\* createUsageLogAction and onShareAction
FailureMessages ==
    {CheckMessages[k] : k \in 1..4} \cup
    { "API configuration error. Please contact support.",
      "Failed to get a valid AI response.",
      "Failed to parse structured AI output. Try again later.",
      "An error occurred while communicating with Mistral. Please try again later.",
      "An unexpected error occurred. Please try again later.",
      "Failed to create usage log",
      "Failed to log share action" }

\* the failure envelopes the program has returned to a caller
FailuresReturned ==
    {e \in UNION {{envelope[c], logResult[c], share[c].result} : c \in DOMAIN pc} :
        e # <<>> /\ ~e[1].isSuccess}

\* C18: every failure envelope returned by handleMistralAction (and so by
\* onSubmitAction), createUsageLogAction or onShareAction carries one of the fixed
\* literals, whatever error was thrown; the rejection for the missing credential is
\* the literal that names no variable; an error that rejected the race gives the one
\* literal of the communication failure
C18_FixedFailureMessages ==
    /\ \A e \in FailuresReturned : e[1].message \in FailureMessages /\ e[1].data = <<>>
    /\ \A c \in DOMAIN pc :
          /\ thrown[c] \notin FailureMessages
          /\ (Returned(c) /\ thrown[c] # "") => envelope[c] = <<OnApiError>>
          /\ (Returned(c) /\ Violated(args[c]) = {} /\ ~apiKey) =>
                Envelope(c).message = "API configuration error. Please contact support."

\* the completion call rejected with the error of an invalid key and the caller got
\* the literal of the communication failure
C18_Witness ==
    \E c \in DOMAIN pc :
        /\ Returned(c) /\ thrown[c] = "401 Unauthorized: invalid API key"
        /\ Envelope(c).message
              = "An error occurred while communicating with Mistral. Please try again later."

\* the race settled with a response that has no content
ContentMissing(c) == Returned(c) /\ settledBy[c] = "response" /\ ~HasContent(response[c])

\* C19 as claimed: a response without content returns the envelope of a timeout
C19_MissingContentAsTimeout ==
    \A c \in DOMAIN pc : ContentMissing(c) => envelope[c] = <<OnApiError>>

\* C19 amended: a response without content and a timeout both return a failure
\* envelope without data, but not the same one: the first carries "Failed to get a
\* valid AI response.", the second the message of the communication failure
C19_MissingContentOwnMessage ==
    \A c \in DOMAIN pc :
        /\ ContentMissing(c) =>
              /\ envelope[c] = <<Failure("Failed to get a valid AI response.")>>
              /\ envelope[c] # <<OnApiError>>
        /\ (Returned(c) /\ settledBy[c] = "timeout") => envelope[c] = <<OnApiError>>
        /\ (ContentMissing(c) \/ (Returned(c) /\ settledBy[c] = "timeout")) =>
              (~Envelope(c).isSuccess /\ Envelope(c).data = <<>>)

\* the call resolved with choices whose message has no content, and the caller got
\* the message of the invalid response
C19_Witness ==
    \E c \in DOMAIN pc :
        /\ ContentMissing(c) /\ response[c].shape = "noContent"
        /\ Envelope(c).message = "Failed to get a valid AI response."

(***************************************************************************)
(* Properties of the usage log.                                            *)
(***************************************************************************)

\* a call of createUsageLogAction returned success in this step, to the handler or
\* to onShareAction
LogCallSucceeded ==
    \E c \in DOMAIN pc :
        \/ logResult[c] = <<>> /\ logResult'[c] # <<>> /\ logResult'[c][1].isSuccess
        \/ share[c].result = <<>> /\ share'[c].result # <<>> /\ share'[c].result[1].isSuccess

\* a call of createUsageLogAction returned failure in this step
LogCallFailed ==
    \E c \in DOMAIN pc :
        \/ logResult[c] = <<>> /\ logResult'[c] # <<>> /\ ~logResult'[c][1].isSuccess
        \/ share[c].result = <<>> /\ share'[c].result # <<>> /\ ~share'[c].result[1].isSuccess

\* the rows createUsageLogAction can write
UsageRows ==
    [eventType : {"mistral-analysis"} \cup {"shared_" \o n : n \in Networks},
     userId : {"system", "null"},
     createdAt : 0..(MaxTime + 1)]

\* C20: under every interleaving of the submissions and shares of the clients, a step
\* leaves the rows of the usage log as they are and in place; a call of
\* createUsageLogAction that succeeds appends exactly one row {eventType, userId,
\* createdAt}, stamped with the clock, and a failed one appends none
C20_AppendOnly ==
    [][ /\ Len(usageLog') >= Len(usageLog)
        /\ SubSeq(usageLog', 1, Len(usageLog)) = usageLog
        /\ LogCallSucceeded =>
              /\ Len(usageLog') = Len(usageLog) + 1
              /\ usageLog'[Len(usageLog')] \in UsageRows
              /\ usageLog'[Len(usageLog')].createdAt = now
        /\ LogCallFailed => usageLog' = usageLog
        /\ ~LogCallSucceeded => usageLog' = usageLog ]_vars

\* both clients shared and submitted, one client's share logged between the two
\* submissions' rows, and a later row was stamped later
C20_Witness ==
    /\ Len(usageLog) = 4
    /\ usageLog[1].eventType = "mistral-analysis"
    /\ usageLog[2].eventType = "shared_reddit"
    /\ usageLog[3].eventType = "mistral-analysis"
    /\ usageLog[1].createdAt < usageLog[4].createdAt

(***************************************************************************)
(* What reaches storage.                                                   *)
(***************************************************************************)

\* the rows of the usage log that submissions wrote (shares write "shared_..." rows)
SubmissionRows ==
    SelectSeq(usageLog, LAMBDA r : r.eventType \notin {"shared_" \o n : n \in Networks})

\* C21: whatever was submitted (profession, experience, region, skillLevel) and
\* whatever completion came back, the rows the submissions wrote are the same: one
\* row {eventType "mistral-analysis", userId "system"} for every usage-log call that
\* succeeded, and nothing of the request or of the report is among them
C21_NothingSubmittedIsStored ==
    LET logged == {c \in DOMAIN pc : logResult[c] # <<>> /\ logResult[c][1].isSuccess}
    IN  /\ Len(SubmissionRows) = Cardinality(logged)
        /\ \A i \in 1..Len(SubmissionRows) :
              /\ SubmissionRows[i].eventType = "mistral-analysis"
              /\ SubmissionRows[i].userId = "system"

\* a report for a chef was returned and the row of the submission is in the log
C21_Witness ==
    \E c \in DOMAIN pc :
        /\ envelope[c] # <<>> /\ envelope[c][1].isSuccess
        /\ envelope[c][1].data[1].profession = "Chef"
        /\ envelope[c][1].data[1].placard # Fallbacks[4]
        /\ args[c].experience = 50 /\ args[c].skillLevel = 1
        /\ Len(SubmissionRows) = 1

(***************************************************************************)
(* The prompt and the parser.                                              *)
(***************************************************************************)

\* the name a header line of the prompt asks for: what stands between the ordinal
\* "n) " and the colon
PromptName(n) ==
    LET line == Trim(PromptHeaderLines[n])
    IN  SubSeq(line, 4, Len(line) - 1)

\* C22: the prompt asks for the four names the parser recognises, in the same order;
\* every header line as the prompt renders it is matched by the header pattern as
\* the header of its section, and a completion that uses these lines has each body
\* in the field of its section
C22_PromptMatchesParser ==
    Parsed("prompt") =>
        /\ Len(PromptHeaderLines) = Len(SectionNames)
        /\ \A n \in Sections :
              /\ PromptName(n) = SectionNames[n]
              /\ HeaderMatch(Trim(PromptHeaderLines[n])) = n
        /\ \A n \in Sections :
              /\ sample.parsed[1][n] =
                    IF n \in sample.doc.present THEN TrimLines(Bodies[n]) ELSE <<>>
              /\ sample.raw # <<>> =>
                    FieldOf(sample.returned[1].data[1], n) =
                        IF n \in sample.doc.present THEN cleanText(TrimLines(Bodies[n]))
                        ELSE Fallbacks[n]

\* a completion that echoes the four header lines of the prompt, indented as there,
\* was parsed, and the third of them filled the steps field
C22_Witness ==
    /\ Parsed("prompt") /\ sample.doc.present = Sections
    /\ ~sample.doc.preamble
    /\ SubSeq(SplitLines(sample.raw)[8], 1, 5) = <<" ", " ", "3", ")", " ">>
    /\ sample.returned[1].data[1].steps # Fallbacks[3]
    /\ sample.returned[1].data[1].steps = cleanText(TrimLines(Bodies[3]))

(***************************************************************************)
(* The race between the completion call and the timer.                     *)
(***************************************************************************)

\* C23: the first of the two events settles the race and alone decides the one
\* envelope of the submission: a response that came first gives the envelope of that
\* response, a timer that fired first gives the failure of catch (apiError); the
\* event that comes second changes neither the envelope nor what settled the race,
\* and lets no exception leave the handler
C23_FirstEventDecides ==
    [][ \A c \in DOMAIN pc :
          /\ envelope[c] # <<>> =>
                /\ envelope'[c] = envelope[c]
                /\ settledBy'[c] = settledBy[c]
          /\ ~escaped'[c]
          /\ (settledBy[c] = "none" /\ settledBy'[c] = "response") =>
                (timer[c] = "armed" /\ remote[c] = "pending" /\ remote'[c] = "resolved")
          /\ (settledBy[c] = "none" /\ settledBy'[c] = "timeout") =>
                (remote[c] = "pending" /\ timer[c] = "armed" /\ timer'[c] = "fired")
          /\ settledBy'[c] = "response" =>
                envelope'[c] = <<OnResponse(args'[c].profession, response'[c])>>
          /\ settledBy'[c] = "timeout" => envelope'[c] = <<OnApiError>> ]_vars

\* one submission got its report and its timer fired afterwards; another timed out
\* and the completion arrived afterwards
C23_Witness ==
    /\ settledBy["c1"] = "response" /\ timer["c1"] = "fired"
    /\ envelope["c1"] # <<>> /\ envelope["c1"][1].isSuccess /\ ~escaped["c1"]
    /\ "c2" \in DOMAIN pc
    /\ settledBy["c2"] = "timeout" /\ remote["c2"] = "resolved"
    /\ response["c2"].content = FullCompletion
    /\ envelope["c2"] = <<OnApiError>>

(***************************************************************************)
(* Usage logging and the main path.                                        *)
(***************************************************************************)

\* C24 as claimed: handleMistralAction does not wait for the usage-log write, so
\* while the write is still under way the completion request is issued and the
\* submission returns an envelope, whether or not the write ever finishes
C24_LoggingNotAwaited ==
    \A c \in Clients :
        (pc[c] = "logging") ~> (requests[c] = 1 /\ Returned(c) /\ envelope[c] # <<>>)

(***************************************************************************)
(* The order and the repetition of the sections.                           *)
(***************************************************************************)

\* C25: in whatever order the four header-and-body blocks of a completion stand,
\* each header occurring once, every body is in the field of its own header: the
\* parsed sections and the report are those of the ascending order
C25_OrderIndependent ==
    Parsed("permuted") =>
        LET canonical ==
                DocText([sample.doc EXCEPT !.order = <<1, 2, 3, 4>>])
        IN  /\ sample.parsed[1] = ExtractSections(canonical)
            /\ sample.returned[1].data[1].outlook = FieldsOf[canonical][1]
            /\ sample.returned[1].data[1].benefitsAndRisks = FieldsOf[canonical][2]
            /\ sample.returned[1].data[1].steps = FieldsOf[canonical][3]
            /\ sample.returned[1].data[1].placard = FieldsOf[canonical][4]
            /\ \A n \in Sections : sample.parsed[1][n] = TrimLines(Bodies[n])

\* the completion began with the placard and ended with the general outlook, and
\* both are in their fields
C25_Witness ==
    /\ Parsed("permuted") /\ sample.doc.order = <<4, 3, 2, 1>>
    /\ sample.doc.style = "paren"
    /\ sample.returned[1].data[1].placard = cleanText(Bodies[4])
    /\ sample.returned[1].data[1].outlook = Bodies[1]

(***************************************************************************)
(* HTML in the report.                                                     *)
(***************************************************************************)

\* a character of a tag's name
IsNameChar(c) == IsDigit(c) \/ ToLower(c) # c \/ ToUpper(c) # c

\* the name of the tag that opens at position i of t (after "<" or "</")
TagNameAt(t, i) ==
    LET s == IF i + 1 <= Len(t) /\ t[i + 1] = "/" THEN i + 2 ELSE i + 1
        e == Least({j \in s..Len(t) : ~IsNameChar(t[j])}, Len(t) + 1)
    IN  SubSeq(t, s, e - 1)

\* the names of the tags in t
TagNames(t) == {TagNameAt(t, i) : i \in {k \in 1..Len(t) : t[k] = "<"}} \ {<<>>}

\* the tags cleanText writes
CleanerTags ==
    {<<"u","l">>, <<"l","i">>, <<"s","t","r","o","n","g">>, <<"e","m">>, <<"h","4">>}

\* C26 as claimed: whatever markup the completion contains, the fields of the report
\* contain no HTML tag other than those cleanText writes itself
C26_OutputSanitized ==
    (sample.parsed # <<>> /\ sample.returned[1].isSuccess) =>
        \A n \in Sections :
            TagNames(FieldOf(sample.returned[1].data[1], n)) \subseteq CleanerTags

\* pat occurs in t
Contains(t, pat) == \E i \in 1..Len(t) : StartsWithAt(t, i, pat)

\* C27: when a header occurs twice, its section holds the text that follows the
\* second occurrence and nothing of what followed the first; text before the
\* first header is in no section and in no field of the report
C27_LastOccurrenceWins ==
    /\ Parsed("repeated") =>
          \A n \in Sections :
              /\ sample.parsed[1][n] = TrimLines(Bodies[n])
              /\ FieldOf(sample.returned[1].data[1], n) = cleanText(TrimLines(Bodies[n]))
              /\ ~Contains(FieldOf(sample.returned[1].data[1], n), ExtraBody)
    /\ (sample.parsed # <<>> /\ sample.doc.preamble) =>
          \A n \in Sections :
              /\ ~Contains(sample.parsed[1][n], Preamble)
              /\ ~Contains(FieldOf(sample.returned[1].data[1], n), Preamble)

\* prose, then the general outlook twice with another section in between: the
\* outlook is the text under the second header
C27_Witness ==
    /\ Parsed("repeated") /\ sample.doc.order = <<1, 2, 1, 3, 4>> /\ sample.doc.preamble
    /\ Contains(sample.raw, ExtraBody) /\ Contains(sample.raw, Preamble)
    /\ sample.returned[1].data[1].outlook = Bodies[1]

(***************************************************************************)
(* Properties of HomeClient.                                               *)
(***************************************************************************)

\* C28 as claimed: at most one call of onSubmitAction is in flight at any time,
\* whatever the order of submit events and renders: no submission starts before the
\* one before it has returned
C28_OneCallInFlight == Len(form.calls) <= 1

\* what the calls that returned a success envelope settled with, in the order they
\* settled
Successes ==
    SelectSeq(form.settled, LAMBDA s : s.outcome # Thrown /\ s.outcome[1].isSuccess)

\* C29: the result on screen is the report of the last success envelope that
\* arrived, and none if none arrived: a call that settles with a failure envelope
\* or with a thrown error leaves the result as it was
C29_ResultIsLastSuccess ==
    form.result =
        IF Successes = <<>> THEN <<>> ELSE Successes[Len(Successes)].outcome[1].data

\* a nurse's report arrived, then a chef's submission made afterwards failed: the
\* nurse's report is still on screen
C29_Witness ==
    /\ Len(form.settled) = 2 /\ form.calls = <<>>
    /\ form.settled[1].id = 1 /\ form.settled[1].profession = "Nurse"
    /\ form.settled[1].outcome # Thrown /\ form.settled[1].outcome[1].isSuccess
    /\ form.settled[2].id = 2 /\ form.settled[2].profession = "Chef"
    /\ form.settled[2].outcome = <<OnApiError>>
    /\ form.result # <<>> /\ form.result[1].profession = "Nurse"
    /\ form.toast = OnApiError.message

(***************************************************************************)
(* Properties of the forms against the server's validation.                *)
(***************************************************************************)

\* values one of the two forms submits: they satisfy HomeClient's formSchema or
\* FormInputs' formSchema
FormAccepts(a) == HomeFormSchema(a) \/ InputsFormSchema(a)

\* C30 as claimed: a submission whose values satisfy the schema of the form they
\* were entered in is never answered with one of the four validation messages of
\* handleMistralAction
C30_FormAcceptedPassesServer ==
    \A c \in Clients :
        Returned(c) /\ envelope[c] # <<>> /\ FormAccepts(args[c])
            => \A k \in 1..4 : Envelope(c).message # CheckMessages[k]

=============================================================================
